---- MODULE Spec2Model ----
(***************************************************************************)
(* NexusMarket storefront: checkout (CheckoutPage.handleSubmit), payment   *)
(* reconciliation (OrderSuccessPage's polling effect), the cart store      *)
(* (CartProvider), the Order Summary figures of CartPage and CheckoutPage  *)
(* and AdminOrders, as one state machine.  The browser side is translated  *)
(* from the React sources; the backend (orders, payment sessions, cart     *)
(* documents, catalog) is the environment the requests of lib/api.js talk  *)
(* to.  Spec is the whole checkout and payment flow; the other             *)
(* specifications start one page of the application on its own.            *)
(*                                                                         *)
(* React semantics used: a state setter that stores a value equal to the   *)
(* current one causes no re-render; a re-render re-runs an effect exactly  *)
(* when one of its dependencies changed; every render of CartProvider      *)
(* creates a new clearCart function, so every CartProvider state change    *)
(* changes the clearCart dependency of OrderSuccessPage's effect.  A       *)
(* checkPayment invocation keeps the pollCount of the render that started  *)
(* it (closure).  The synchronous prefix of an async function, up to its   *)
(* first await, runs in the step that calls it.                            *)
(***************************************************************************)
EXTENDS Integers, Sequences, FiniteSets, Bags, TLC

\* ---- bounds of the model ----
MaxChecks == 6      \* checkPayment invocations per page visit
MaxRuns == 2        \* checkPayment invocations in flight at once
MaxOrders == 1      \* orders created (submit attempts that reach the backend)

\* ---- program constants ----
PollLimit == 5      \* pollCount < 5: continue polling
RetryLimit == 3     \* pollCount < 3: retry after an error

\* Money is counted in cents.  Catalog prices of the two products of the
\* model when the application starts: 60.00 and 50.00.
Products == {1, 2}
Price(p) == IF p = 1 THEN 6000 ELSE 5000

\* The cart documents a user may hold when the application starts.
InitCarts ==
    { <<>>,
      <<[product_id |-> 1, quantity |-> 1]>>,
      <<[product_id |-> 1, quantity |-> 1], [product_id |-> 2, quantity |-> 1]>> }

\* The total GET /cart reports for the items it returns.
RECURSIVE CartTotal(_)
CartTotal(c) ==
    IF c = <<>> THEN 0
    ELSE Head(c).price * Head(c).quantity + CartTotal(Tail(c))

VARIABLES
    \* browser
    page,           \* "checkout" | "provider" (external payment page) | "success"
                    \* | "away" (another route, after leaving "success")
                    \* | "cart" | "admin"
    \* CartProvider
    items, total, cartLoading,
    fetch,          \* the fetchCart requests in flight (bag of records)
    \* CheckoutPage
    loading, paymentMethod,
    submit,         \* position of handleSubmit and the order it created
    toast,          \* last toast shown by CheckoutPage
    \* OrderSuccessPage
    sessionId, orderId,     \* URL parameters, 0 = absent
    status, order, pollCount,
    runs,           \* checkPayment invocations in flight (bag of records)
    timers,         \* pending setTimeout(() => setPollCount(prev => prev + 1), 2000)
    \* backend
    serverCart, orders, sessions,
    \* observation (history) variables
    nChecks,        \* checkPayment invocations started in this page visit
    nPageClear,     \* clearCart calls made by OrderSuccessPage
    nSubmitClear,   \* clearCart calls made by CheckoutPage.handleSubmit
    nClearReturned, \* clearCart calls of OrderSuccessPage that have returned
    nStripeSession, \* createStripeSession calls issued
    respLog,        \* first two getPaymentStatus responses the page has handled
    respKinds,      \* kinds of getPaymentStatus responses the page has handled
    failures,       \* kinds of request that have failed towards the page
    cartAtMount,    \* server cart when OrderSuccessPage mounted
    \* catalog
    prices,         \* current price of every product
    \* CartProvider's mutating calls in flight (bag of records)
    cartOps,
    \* AdminOrders
    adminOrders,    \* the orders state of the component
    adminReqs,      \* handleStatusChange invocations in flight (bag of records)
    \* AuthProvider
    token,          \* the token of useAuth(), 0 = none (signed out)
    \* observation (history) variables of CartProvider
    unauth,         \* how a CartProvider call made without a token has ended
    issued          \* the calls already in flight in the initial state

cartVars == <<items, total, cartLoading, fetch>>
checkoutVars == <<loading, paymentMethod, submit, toast>>
pageVars == <<sessionId, orderId, status, order, pollCount, runs, timers>>
serverVars == <<serverCart, orders, sessions>>
histVars == <<nChecks, nPageClear, nSubmitClear, nClearReturned,
              nStripeSession, respLog, respKinds, failures, cartAtMount>>
extVars == <<prices, cartOps, adminOrders, adminReqs, token, unauth, issued>>
vars == <<page, cartVars, checkoutVars, pageVars, serverVars, histVars, extVars>>

One(x) == SetToBag({x})

\* The user is signed in and CartProvider has not been called yet.
SignedIn == token = 1 /\ unauth = "none" /\ issued = <<>>

\* Counters of calls are kept up to 2: the claims tell 0, 1 and more apart.
Count(n, k) == IF n + k > 2 THEN 2 ELSE n + k

\* getPaymentStatus calls issued: one per checkPayment invocation on the
\* session path (line 28).
nQueries == IF sessionId # 0 THEN nChecks ELSE 0

\* ------------------------------------------------------------------------
\* Backend (the environment of lib/api.js)
\* ------------------------------------------------------------------------

\* GET /cart joins every item of the cart document with its product; the
\* product's price is kept as the item's price field (item.product.price).
WithProducts(c) ==
    [i \in DOMAIN c |->
        [product_id |-> c[i].product_id, quantity |-> c[i].quantity,
         price |-> prices[c[i].product_id]]]

\* POST /orders: a new order, unpaid and pending.
ServerCreateOrder(its, method) ==
    Append(orders, [items |-> its, payment_method |-> method,
                    payment_status |-> "unpaid", status |-> "pending"])

\* GET /payments/status/{session_id}: the provider's view of the session.
ServerPaymentStatus(sid) ==
    LET s == sessions[sid] IN
    [kind |-> "ok",
     payment_status |-> IF s.state = "paid" THEN "paid" ELSE "unpaid",
     status |-> IF s.state = "paid" THEN "complete" ELSE s.state,
     order_id |-> s.order_id]

\* The backend records a confirmed payment on the order when it reads it.
ServerMarkPaid(sid) ==
    LET s == sessions[sid] IN
    IF s.state = "paid"
    THEN [orders EXCEPT ![s.order_id].payment_status = "paid"]
    ELSE orders

NoResponse == [kind |-> "none", payment_status |-> "-", status |-> "-", order_id |-> 0]
FailResponse == [kind |-> "fail", payment_status |-> "-", status |-> "-", order_id |-> 0]
OkResponse == [kind |-> "ok", payment_status |-> "-", status |-> "-", order_id |-> 0]

\* fetchCart, synchronous prefix (authenticated): setLoading(true), GET /cart.
FetchRequest == [data |-> <<>>, answered |-> FALSE, ok |-> FALSE]

\* The shipping form (AdminDashboard.jsx 369-376, 399): the required fields in
\* the order handleSubmit tests them; a field value is a sequence of
\* characters, " " standing for white space and "a" for any other character.
RequiredFields == <<"name", "address", "city", "state", "zip">>
FieldNames == {RequiredFields[i] : i \in DOMAIN RequiredFields}
FieldValues == {<<>>, <<" ">>, <<"a">>, <<" ", "a">>}
Addresses == [FieldNames -> FieldValues]
NoAddress == [f \in FieldNames |-> <<>>]

\* handleSubmit is not running.
SubmitIdle ==
    [pc |-> "idle", order_id |-> 0, res |-> "none", items |-> <<>>, method |-> "-",
     address |-> NoAddress]

\* ------------------------------------------------------------------------
\* Initial state: the application has just loaded on the checkout page;
\* CartProvider has mounted (items = [], total = 0) and its effect has
\* started fetchCart (setLoading(true), GET /cart sent).
\* ------------------------------------------------------------------------
Init ==
    /\ page = "checkout"
    /\ items = <<>> /\ total = 0 /\ cartLoading = TRUE
    /\ fetch = One(FetchRequest)
    /\ loading = FALSE /\ paymentMethod = "stripe"
    /\ submit = SubmitIdle
    /\ toast = "none"
    /\ sessionId = 0 /\ orderId = 0
    /\ status = "loading" /\ order = 0 /\ pollCount = 0
    /\ runs = EmptyBag /\ timers = 0
    /\ serverCart \in InitCarts
    /\ orders = <<>> /\ sessions = <<>>
    /\ nChecks = 0 /\ nPageClear = 0 /\ nSubmitClear = 0
    /\ nClearReturned = 0 /\ nStripeSession = 0
    /\ respLog = <<>> /\ respKinds = {} /\ failures = {}
    /\ cartAtMount = <<>>
    /\ prices = [p \in Products |-> Price(p)]
    /\ SignedIn
    /\ cartOps = EmptyBag
    /\ adminOrders = <<>> /\ adminReqs = EmptyBag

\* ------------------------------------------------------------------------
\* OrderSuccessPage: the effect and checkPayment
\* ------------------------------------------------------------------------

\* Line 64: the guard in front of checkPayment().
EffectGuard(st, pc) == st = "loading" \/ pc > 0

\* checkPayment up to its first await, in a render whose pollCount is pc.
StartCheck(sid, oid, pc) ==
    IF sid # 0
    THEN [pc |-> "getPaymentStatus", pollCount |-> pc, res |-> NoResponse, order_id |-> 0]
    ELSE [pc |-> "getOrderDirect", pollCount |-> pc, res |-> NoResponse, order_id |-> oid]

\* The checkPayment invocations a re-render starts: the effect re-runs when a
\* dependency (pollCount, status, clearCart) changed.
EffectRuns(st, pc, changed) ==
    IF page = "success" /\ changed /\ EffectGuard(st, pc) /\ (sessionId # 0 \/ orderId # 0)
    THEN One(StartCheck(sessionId, orderId, pc))
    ELSE EmptyBag

\* The effect returns no cleanup function (lines 18-67): when the page is
\* left, its timers and the checkPayment invocations in flight go on; React
\* ignores the state setters of the unmounted component.
Mounted == page = "success"
Running == page \in {"success", "away"}

\* The value of nChecks in a visit whose invocations are not counted: the
\* visit is then not cut off after MaxChecks invocations and may go on for
\* ever.
Uncounted == -1

\* Commit of a render of OrderSuccessPage with the new status and pollCount;
\* cartChanged: CartProvider re-rendered (new clearCart); rest: the
\* invocations that stay in flight.
Render(st0, pc0, cartChanged, rest) ==
    LET st == IF Mounted THEN st0 ELSE status
        pc == IF Mounted THEN pc0 ELSE pollCount
        changed == st # status \/ pc # pollCount \/ cartChanged
        new == EffectRuns(st, pc, changed)
        n == BagCardinality(new)
    IN  /\ n > 0 => (nChecks = Uncounted \/ nChecks < MaxChecks)
                     /\ BagCardinality(rest) < MaxRuns
        /\ status' = st
        /\ pollCount' = pc
        /\ runs' = rest (+) new
        /\ nChecks' = IF nChecks = Uncounted THEN Uncounted ELSE nChecks + n

\* What one resumption of checkPayment does: the status it sets, whether it
\* arms a timer, whether it calls clearCart, and how the invocation goes on.
Outcome(st, tm, cl, nxt) == [status |-> st, timer |-> tm, clear |-> cl, next |-> nxt]

\* Lines 54-61: the catch branch, with the pollCount of the invocation.
CatchBranch(r) ==
    IF r.pollCount < RetryLimit
    THEN Outcome(status, 1, 0, EmptyBag)
    ELSE Outcome("error", 0, 0, EmptyBag)

\* OnPaymentStatus with a clearCart call in the expired branch.
OnPaymentStatus_ClearOnExpired(r) ==
    IF r.res.kind = "fail" THEN CatchBranch(r)
    ELSE IF r.res.payment_status = "paid"
    THEN Outcome("success", 0, 1,
                 One([r EXCEPT !.pc = "clearCart", !.res = NoResponse,
                               !.order_id = r.res.order_id]))
    ELSE IF r.res.status = "expired"
    THEN Outcome("error", 0, 1,
                 One([r EXCEPT !.pc = "clearCart", !.res = NoResponse,
                               !.order_id = r.res.order_id]))
    ELSE IF r.pollCount < PollLimit THEN Outcome(status, 1, 0, EmptyBag)
    ELSE Outcome("pending", 0, 0, EmptyBag)

\* Lines 28-46: the continuation after await getPaymentStatus(sessionId).
OnPaymentStatus(r) ==
    IF r.res.kind = "fail" THEN CatchBranch(r)
    ELSE IF r.res.payment_status = "paid"
    THEN Outcome("success", 0, 1,
                 One([r EXCEPT !.pc = "clearCart", !.res = NoResponse,
                               !.order_id = r.res.order_id]))
    ELSE IF r.res.status = "expired" THEN Outcome("error", 0, 0, EmptyBag)
    ELSE IF r.pollCount < PollLimit THEN Outcome(status, 1, 0, EmptyBag)
    ELSE Outcome("pending", 0, 0, EmptyBag)

\* Lines 32-38: the continuation after await clearCart() on the session path.
OnClearCart(r) ==
    IF r.res.kind = "fail" THEN CatchBranch(r)
    ELSE IF r.order_id # 0
    THEN Outcome(status, 0, 0, One([r EXCEPT !.pc = "getOrder", !.res = NoResponse]))
    ELSE Outcome(status, 0, 0, EmptyBag)

\* Lines 36-37: the continuation after await getOrder(res.data.order_id).
OnGetOrder(r) ==
    IF r.res.kind = "fail" THEN CatchBranch(r)
    ELSE Outcome(status, 0, 0, EmptyBag)

\* Lines 49-52: the continuation after await getOrder(orderId).
OnGetOrderDirect(r) ==
    IF r.res.kind = "fail" THEN CatchBranch(r)
    ELSE Outcome("success", 0, 1,
                 One([r EXCEPT !.pc = "clearCartDirect", !.res = NoResponse]))

\* Line 52: the continuation after await clearCart() on the order_id path.
OnClearCartDirect(r) ==
    IF r.res.kind = "fail" THEN CatchBranch(r)
    ELSE Outcome(status, 0, 0, EmptyBag)

Kind(res) ==
    IF res.kind = "fail" THEN "fail"
    ELSE IF res.payment_status = "paid" THEN "paid"
    ELSE IF res.status = "expired" THEN "expired"
    ELSE "open"

\* A response of getPaymentStatus reaches the page.
RecvPaymentStatus(r) ==
    /\ Running /\ r.pc = "getPaymentStatus" /\ r.res.kind # "none"
    /\ LET o == OnPaymentStatus(r) IN
        /\ page' = page
        /\ Render(o.status, pollCount, FALSE, (runs (-) One(r)) (+) o.next)
        /\ timers' = timers + o.timer
        /\ nPageClear' = Count(nPageClear, o.clear)
    /\ respLog' = IF Len(respLog) < 2 THEN Append(respLog, Kind(r.res)) ELSE respLog
    /\ respKinds' = IF r.res.kind = "ok" THEN respKinds \cup {Kind(r.res)} ELSE respKinds
    /\ failures' = IF r.res.kind = "fail" THEN failures \cup {"status"} ELSE failures
    /\ UNCHANGED <<cartVars, checkoutVars, serverVars, sessionId, orderId, order,
                   nSubmitClear, nClearReturned, nStripeSession, cartAtMount>>
    /\ UNCHANGED extVars

\* clearCart that leaves the total as it was.
ClearedCart_KeepTotal == [items |-> <<>>, total |-> total]

\* CartContext.jsx 91-92: setItems([]); setTotal(0) after the DELETE succeeded.
ClearedCart == [items |-> <<>>, total |-> 0]

\* clearCart (CartContext.jsx 85-93) returns or throws into checkPayment.
RecvClearCart(r) ==
    /\ Running /\ r.pc \in {"clearCart", "clearCartDirect"} /\ r.res.kind # "none"
    /\ LET o == IF r.pc = "clearCart" THEN OnClearCart(r) ELSE OnClearCartDirect(r)
           ok == r.res.kind = "ok"
       IN
        /\ page' = page
        /\ items' = IF ok THEN ClearedCart.items ELSE items
        /\ total' = IF ok THEN ClearedCart.total ELSE total
        /\ Render(o.status, pollCount, ok, (runs (-) One(r)) (+) o.next)
        /\ timers' = timers + o.timer
        /\ nClearReturned' = Count(nClearReturned, IF ok THEN 1 ELSE 0)
    /\ failures' = IF r.res.kind = "fail" THEN failures \cup {"clear"} ELSE failures
    /\ UNCHANGED <<cartLoading, fetch, checkoutVars, serverVars, sessionId, orderId, order,
                   nPageClear, nSubmitClear, nStripeSession, respLog, respKinds, cartAtMount>>
    /\ UNCHANGED extVars

\* A response of getOrder reaches the page (either path).
RecvGetOrder(r) ==
    /\ Running /\ r.pc \in {"getOrder", "getOrderDirect"} /\ r.res.kind # "none"
    /\ LET o == IF r.pc = "getOrder" THEN OnGetOrder(r) ELSE OnGetOrderDirect(r) IN
        /\ page' = page
        /\ order' = IF r.res.kind = "ok" /\ Mounted THEN r.order_id ELSE order
        /\ Render(o.status, pollCount, FALSE, (runs (-) One(r)) (+) o.next)
        /\ timers' = timers + o.timer
        /\ nPageClear' = Count(nPageClear, o.clear)
    /\ failures' = IF r.res.kind = "fail" THEN failures \cup {"order"} ELSE failures
    /\ UNCHANGED <<cartVars, checkoutVars, serverVars, sessionId, orderId,
                   nSubmitClear, nClearReturned, nStripeSession, respLog, respKinds,
                   cartAtMount>>
    /\ UNCHANGED extVars

\* Lines 43 and 57: a timer fires, setPollCount(prev => prev + 1).
TimerFire ==
    /\ Running /\ timers > 0
    /\ page' = page
    /\ timers' = timers - 1
    /\ Render(status, pollCount + 1, FALSE, runs)
    /\ UNCHANGED <<cartVars, checkoutVars, serverVars, sessionId, orderId, order,
                   nPageClear, nSubmitClear, nClearReturned, nStripeSession,
                   respLog, respKinds, failures, cartAtMount>>
    /\ UNCHANGED extVars

\* ------------------------------------------------------------------------
\* The backend answers the requests of checkPayment
\* ------------------------------------------------------------------------
Answer(r, res) == runs' = (runs (-) One(r)) (+) One([r EXCEPT !.res = res])

ServerStatus(r) ==
    /\ r.pc = "getPaymentStatus" /\ r.res.kind = "none"
    /\ Answer(r, ServerPaymentStatus(sessionId))
    /\ orders' = ServerMarkPaid(sessionId)
    /\ UNCHANGED <<page, cartVars, checkoutVars, sessionId, orderId, status, order,
                   pollCount, timers, serverCart, sessions, histVars>>
    /\ UNCHANGED extVars

ServerClear(r) ==
    /\ r.pc \in {"clearCart", "clearCartDirect"} /\ r.res.kind = "none"
    /\ Answer(r, OkResponse)
    /\ serverCart' = <<>>
    /\ UNCHANGED <<page, cartVars, checkoutVars, sessionId, orderId, status, order,
                   pollCount, timers, orders, sessions, histVars>>
    /\ UNCHANGED extVars

ServerGetOrder(r) ==
    /\ r.pc \in {"getOrder", "getOrderDirect"} /\ r.res.kind = "none"
    /\ r.order_id \in DOMAIN orders
    /\ Answer(r, OkResponse)
    /\ UNCHANGED <<page, cartVars, checkoutVars, sessionId, orderId, status, order,
                   pollCount, timers, serverVars, histVars>>
    /\ UNCHANGED extVars

\* Any request may fail: a transport error or an error response.
ServerFail(r) ==
    /\ r.res.kind = "none"
    /\ Answer(r, FailResponse)
    /\ UNCHANGED <<page, cartVars, checkoutVars, sessionId, orderId, status, order,
                   pollCount, timers, serverVars, histVars>>
    /\ UNCHANGED extVars

\* The payment provider: the customer pays, or the session expires.
ProviderPay(sid) ==
    /\ sessions[sid].state = "open"
    /\ sessions' = [sessions EXCEPT ![sid].state = "paid"]
    /\ UNCHANGED <<page, cartVars, checkoutVars, pageVars, serverCart, orders, histVars>>
    /\ UNCHANGED extVars

ProviderExpire(sid) ==
    /\ sessions[sid].state = "open"
    /\ sessions' = [sessions EXCEPT ![sid].state = "expired"]
    /\ UNCHANGED <<page, cartVars, checkoutVars, pageVars, serverCart, orders, histVars>>
    /\ UNCHANGED extVars

\* ------------------------------------------------------------------------
\* CartProvider.fetchCart (CartContext.jsx 23-42)
\* ------------------------------------------------------------------------
FetchAnswer(f) ==
    /\ ~f.answered
    /\ \E ok \in BOOLEAN :
        fetch' = (fetch (-) One(f)) (+)
                 One([data |-> IF ok THEN WithProducts(serverCart) ELSE <<>>,
                      answered |-> TRUE, ok |-> ok])
    /\ UNCHANGED <<page, items, total, cartLoading, checkoutVars, pageVars, serverVars,
                   histVars>>
    /\ UNCHANGED extVars

\* The response arrives: setItems, setTotal (try) and setLoading(false) (finally).
FetchDeliver(f) ==
    /\ f.answered
    /\ fetch' = fetch (-) One(f)
    /\ items' = IF f.ok THEN f.data ELSE items
    /\ total' = IF f.ok THEN CartTotal(f.data) ELSE total
    /\ cartLoading' = FALSE
    /\ page' = page
    /\ Render(status, pollCount, f.ok \/ cartLoading, runs)
    /\ UNCHANGED <<checkoutVars, sessionId, orderId, order, timers, serverVars,
                   nPageClear, nSubmitClear, nClearReturned, nStripeSession,
                   respLog, respKinds, failures, cartAtMount>>
    /\ UNCHANGED extVars

\* ------------------------------------------------------------------------
\* Navigation
\* ------------------------------------------------------------------------

\* A full page load: CartProvider mounts anew and starts fetchCart.
Reload ==
    /\ items' = <<>> /\ total' = 0 /\ cartLoading' = TRUE
    /\ fetch' = One(FetchRequest)
    /\ loading' = FALSE /\ paymentMethod' = "stripe"
    /\ submit' = SubmitIdle /\ toast' = "none"

\* OrderSuccessPage mounts with the URL parameters sid and oid and its effect
\* runs for the first time (lines 11-13, 18-24, 64-66).
Mount(sid, oid) ==
    /\ page' = "success"
    /\ sessionId' = sid /\ orderId' = oid
    /\ status' = IF sid = 0 /\ oid = 0 THEN "error" ELSE "loading"
    /\ order' = 0 /\ pollCount' = 0 /\ timers' = 0
    /\ runs' = IF sid = 0 /\ oid = 0 THEN EmptyBag ELSE One(StartCheck(sid, oid, 0))
    /\ nChecks' = 1
    /\ cartAtMount' = serverCart

\* The provider sends the browser back to /order-success?session_id=...
ReturnFromProvider ==
    /\ page = "provider"
    /\ Reload
    /\ Mount(Len(sessions), 0)
    /\ UNCHANGED <<serverVars, nPageClear, nSubmitClear, nClearReturned, nStripeSession,
                   respLog, respKinds, failures>>
    /\ UNCHANGED extVars

\* The customer leaves the provider's page and comes back to the checkout.
CancelAtProvider ==
    /\ page = "provider"
    /\ page' = "checkout"
    /\ Reload
    /\ UNCHANGED <<pageVars, serverVars, histVars>>
    /\ UNCHANGED extVars

\* The customer opens /order-success directly, with no parameter or with the
\* id of an order (oid = 0: none).
OpenSuccessUrl(oid) ==
    /\ page = "checkout" /\ submit.pc = "idle"
    /\ Reload
    /\ Mount(0, oid)
    /\ UNCHANGED <<serverVars, nPageClear, nSubmitClear, nClearReturned, nStripeSession,
                   respLog, respKinds, failures>>
    /\ UNCHANGED extVars

\* ------------------------------------------------------------------------
\* CheckoutPage (AdminDashboard.jsx 364-445)
\* ------------------------------------------------------------------------

\* Lines 410-416: the line items sent with the order.
OrderItems(its) ==
    [i \in DOMAIN its |->
        [product_id |-> its[i].product_id, price |-> its[i].price,
         quantity |-> its[i].quantity]]

SelectPayment(m) ==
    /\ page = "checkout" /\ paymentMethod # m
    /\ paymentMethod' = m
    /\ UNCHANGED <<page, cartVars, loading, submit, toast, pageVars, serverVars, histVars>>
    /\ UNCHANGED extVars

\* String.prototype.trim: white space removed at both ends.
RECURSIVE TrimStart(_)
TrimStart(v) == IF v # <<>> /\ Head(v) = " " THEN TrimStart(Tail(v)) ELSE v

RECURSIVE TrimEnd(_)
TrimEnd(v) ==
    IF v # <<>> /\ v[Len(v)] = " " THEN TrimEnd(SubSeq(v, 1, Len(v) - 1)) ELSE v

Trim(v) == TrimEnd(TrimStart(v))

\* The field test without trim().
Blank_NoTrim(v) == v = <<>>

\* Line 399: !shippingAddress[field]?.trim()
Blank(v) == Trim(v) = <<>>

\* Lines 398-403: the first required field that fails the test, 0 if none.
FirstMissing(addr) ==
    LET missing == {i \in DOMAIN RequiredFields : Blank(addr[RequiredFields[i]])}
    IN  IF missing = {} THEN 0
        ELSE CHOOSE i \in missing : \A j \in missing : i <= j

\* Line 400: `Please enter your ${field}`
FieldToast(field) ==
    CASE field = "name" -> "Please enter your name"
      [] field = "address" -> "Please enter your address"
      [] field = "city" -> "Please enter your city"
      [] field = "state" -> "Please enter your state"
      [] field = "zip" -> "Please enter your zip"

\* Lines 390-422: validation, setLoading(true), createOrder sent; addr is the
\* content of the shipping form (shippingAddress) when the form is submitted.
Submit(addr) ==
    /\ page = "checkout" /\ submit.pc = "idle" /\ ~loading
    /\ Len(orders) < MaxOrders
    /\ IF items = <<>>
       THEN toast' = "Your cart is empty" /\ UNCHANGED <<loading, submit>>
       ELSE IF FirstMissing(addr) # 0
       THEN /\ toast' = FieldToast(RequiredFields[FirstMissing(addr)])
            /\ UNCHANGED <<loading, submit>>
       ELSE /\ loading' = TRUE
            /\ submit' = [pc |-> "createOrder", order_id |-> 0, res |-> "none",
                          items |-> OrderItems(items), method |-> paymentMethod,
                          address |-> addr]
            /\ toast' = toast
    /\ UNCHANGED <<page, cartVars, paymentMethod, pageVars, serverVars, histVars>>
    /\ UNCHANGED extVars

\* POST /orders handled.
ServerOrder ==
    /\ submit.pc = "createOrder" /\ submit.res = "none"
    /\ orders' = ServerCreateOrder(submit.items, submit.method)
    /\ submit' = [submit EXCEPT !.res = "ok", !.order_id = Len(orders) + 1]
    /\ UNCHANGED <<page, cartVars, loading, paymentMethod, toast, pageVars,
                   serverCart, sessions, histVars>>
    /\ UNCHANGED extVars

\* POST /payments/stripe/create-session handled.
ServerSession ==
    /\ submit.pc = "createSession" /\ submit.res = "none"
    /\ sessions' = Append(sessions, [order_id |-> submit.order_id, state |-> "open"])
    /\ submit' = [submit EXCEPT !.res = "ok"]
    /\ UNCHANGED <<page, cartVars, loading, paymentMethod, toast, pageVars,
                   serverCart, orders, histVars>>
    /\ UNCHANGED extVars

\* DELETE /cart of handleSubmit handled.
ServerSubmitClear ==
    /\ submit.pc = "clearCart" /\ submit.res = "none"
    /\ serverCart' = <<>>
    /\ submit' = [submit EXCEPT !.res = "ok"]
    /\ UNCHANGED <<page, cartVars, loading, paymentMethod, toast, pageVars,
                   orders, sessions, histVars>>
    /\ UNCHANGED extVars

ServerSubmitFail ==
    /\ submit.pc # "idle" /\ submit.res = "none"
    /\ submit' = [submit EXCEPT !.res = "fail"]
    /\ UNCHANGED <<page, cartVars, loading, paymentMethod, toast, pageVars,
                   serverVars, histVars>>
    /\ UNCHANGED extVars

\* Lines 439-444: catch and finally of handleSubmit.
SubmitFailed ==
    /\ page = "checkout" /\ submit.pc # "idle" /\ submit.res = "fail"
    /\ toast' = "Checkout failed. Please try again."
    /\ loading' = FALSE
    /\ submit' = SubmitIdle
    /\ UNCHANGED <<page, cartVars, paymentMethod, pageVars, serverVars, histVars>>
    /\ UNCHANGED extVars

\* Lines 424-436: createOrder returned; the Stripe branch sends
\* createStripeSession, the other branch calls clearCart.
RecvCreateOrder ==
    /\ page = "checkout" /\ submit.pc = "createOrder" /\ submit.res = "ok"
    /\ IF submit.method = "stripe"
       THEN /\ submit' = [submit EXCEPT !.pc = "createSession", !.res = "none"]
            /\ nStripeSession' = Count(nStripeSession, 1)
            /\ UNCHANGED <<toast, nSubmitClear>>
       ELSE /\ toast' = "Order created! PayPal integration coming soon."
            /\ submit' = [submit EXCEPT !.pc = "clearCart", !.res = "none"]
            /\ nSubmitClear' = Count(nSubmitClear, 1)
            /\ UNCHANGED nStripeSession
    /\ UNCHANGED <<page, cartVars, loading, paymentMethod, pageVars, serverVars,
                   nChecks, nPageClear, nClearReturned, respLog, respKinds,
                   failures, cartAtMount>>
    /\ UNCHANGED extVars

\* Line 432: window.location.href = sessionRes.data.url.
RecvCreateSession ==
    /\ page = "checkout" /\ submit.pc = "createSession" /\ submit.res = "ok"
    /\ page' = "provider"
    /\ loading' = FALSE
    /\ submit' = SubmitIdle
    /\ UNCHANGED <<cartVars, paymentMethod, toast, pageVars, serverVars, histVars>>
    /\ UNCHANGED extVars

\* Lines 436-437: clearCart returned (setItems([]), setTotal(0)), then
\* navigate('/order-success?order_id=...'): OrderSuccessPage mounts.
RecvSubmitClear ==
    /\ page = "checkout" /\ submit.pc = "clearCart" /\ submit.res = "ok"
    /\ items' = ClearedCart.items /\ total' = ClearedCart.total
    /\ loading' = FALSE /\ paymentMethod' = "stripe"
    /\ submit' = SubmitIdle /\ toast' = "none"
    /\ Mount(0, submit.order_id)
    /\ UNCHANGED <<cartLoading, fetch, serverVars, nPageClear,
                   nSubmitClear, nClearReturned, nStripeSession, respLog, respKinds,
                   failures>>
    /\ UNCHANGED extVars

\* ------------------------------------------------------------------------
Next ==
    \/ \E r \in BagToSet(runs) :
        \/ RecvPaymentStatus(r)
        \/ RecvClearCart(r)
        \/ RecvGetOrder(r)
        \/ ServerStatus(r)
        \/ ServerClear(r)
        \/ ServerGetOrder(r)
        \/ ServerFail(r)
    \/ TimerFire
    \/ \E sid \in DOMAIN sessions : ProviderPay(sid) \/ ProviderExpire(sid)
    \/ \E f \in BagToSet(fetch) : FetchAnswer(f) \/ FetchDeliver(f)
    \/ ReturnFromProvider
    \/ CancelAtProvider
    \/ \E oid \in {0} \cup DOMAIN orders : OpenSuccessUrl(oid)
    \/ \E m \in {"stripe", "paypal"} : SelectPayment(m)
    \/ \E addr \in Addresses : Submit(addr)
    \/ ServerOrder
    \/ ServerSession
    \/ ServerSubmitClear
    \/ ServerSubmitFail
    \/ SubmitFailed
    \/ RecvCreateOrder
    \/ RecvCreateSession
    \/ RecvSubmitClear

Spec == Init /\ [][Next]_vars

\* ------------------------------------------------------------------------
\* One visit of /order-success?session_id=1, from the moment the provider has
\* sent the browser back: the order and its session exist (in any provider
\* state), the page has loaded anew, CartProvider has started fetchCart and
\* OrderSuccessPage has mounted and issued its first getPaymentStatus.
\* These are the states Spec reaches by ReturnFromProvider; starting here
\* keeps the polling behaviour checkable with larger bounds.
\* ------------------------------------------------------------------------
InitVisit ==
    /\ prices = [p \in Products |-> Price(p)]
    /\ SignedIn
    /\ cartOps = EmptyBag
    /\ adminOrders = <<>> /\ adminReqs = EmptyBag
    /\ page = "success"
    /\ items = <<>> /\ total = 0 /\ cartLoading = TRUE
    /\ fetch = One(FetchRequest)
    /\ loading = FALSE /\ paymentMethod = "stripe"
    /\ submit = SubmitIdle
    /\ toast = "none"
    /\ sessionId = 1 /\ orderId = 0
    /\ status = "loading" /\ order = 0 /\ pollCount = 0
    /\ runs = One(StartCheck(1, 0, 0)) /\ timers = 0
    /\ serverCart \in InitCarts \ {<<>>}
    /\ orders = <<[items |-> OrderItems(WithProducts(serverCart)),
                  payment_method |-> "stripe",
                  payment_status |-> "unpaid", status |-> "pending"]>>
    /\ \E st \in {"open", "paid", "expired"} :
        sessions = <<[order_id |-> 1, state |-> st]>>
    /\ nPageClear = 0 /\ nSubmitClear = 0
    /\ nClearReturned = 0 /\ nStripeSession = 1
    /\ respLog = <<>> /\ respKinds = {} /\ failures = {}
    /\ cartAtMount = serverCart

InitPoll == InitVisit /\ nChecks = 1

NextPoll ==
    \/ \E r \in BagToSet(runs) :
        \/ RecvPaymentStatus(r)
        \/ RecvClearCart(r)
        \/ RecvGetOrder(r)
        \/ ServerStatus(r)
        \/ ServerClear(r)
        \/ ServerGetOrder(r)
        \/ ServerFail(r)
    \/ TimerFire
    \/ \E sid \in DOMAIN sessions : ProviderPay(sid) \/ ProviderExpire(sid)
    \/ \E f \in BagToSet(fetch) : FetchAnswer(f) \/ FetchDeliver(f)

SpecPoll == InitPoll /\ [][NextPoll]_vars

\* ------------------------------------------------------------------------
\* Component state before anything has happened (the useState initialisers)
\* ------------------------------------------------------------------------
IdleCheckout ==
    loading = FALSE /\ paymentMethod = "stripe" /\ submit = SubmitIdle /\ toast = "none"

IdleSuccessPage ==
    /\ sessionId = 0 /\ orderId = 0
    /\ status = "loading" /\ order = 0 /\ pollCount = 0
    /\ runs = EmptyBag /\ timers = 0

IdleHistory ==
    /\ nChecks = 0 /\ nPageClear = 0 /\ nSubmitClear = 0
    /\ nClearReturned = 0 /\ nStripeSession = 0
    /\ respLog = <<>> /\ respKinds = {} /\ failures = {}
    /\ cartAtMount = <<>>

IdleAdmin == adminOrders = <<>> /\ adminReqs = EmptyBag

\* ------------------------------------------------------------------------
\* The visit of /order-success?session_id=1 during which the customer may
\* leave the page for another route of the application (App.js routes):
\* OrderSuccessPage unmounts, CartProvider stays mounted.
\* ------------------------------------------------------------------------
NavigateAway ==
    /\ page = "success"
    /\ page' = "away"
    /\ UNCHANGED <<cartVars, checkoutVars, pageVars, serverVars, histVars, extVars>>

NextLeave == NextPoll \/ NavigateAway

SpecLeave == InitPoll /\ [][NextLeave]_vars

\* ------------------------------------------------------------------------
\* The same visit under the scheduling the browser guarantees: a response
\* that has arrived is handled and a timer that is due fires.  Nothing makes
\* the backend answer: lib/api.js creates its axios instance without a
\* timeout (part_001 5-10), so a call may wait for its response for ever.
\* ------------------------------------------------------------------------
ClientStep ==
    \/ \E r \in BagToSet(runs) : RecvPaymentStatus(r) \/ RecvClearCart(r) \/ RecvGetOrder(r)
    \/ TimerFire
    \/ \E f \in BagToSet(fetch) : FetchDeliver(f)

SpecPollFair == InitPoll /\ [][NextPoll]_vars /\ WF_vars(ClientStep)

\* ------------------------------------------------------------------------
\* The visit for a session the customer has paid, not cut off after
\* MaxChecks invocations, in which the browser takes its steps and every
\* request is eventually answered or fails.
\* ------------------------------------------------------------------------
InitLoop ==
    /\ InitVisit /\ nChecks = Uncounted
    /\ sessions[1].state = "paid"
    /\ Len(serverCart) = 1 /\ serverCart[1] = [product_id |-> 1, quantity |-> 1]

ServerStep ==
    \/ \E r \in BagToSet(runs) :
        ServerStatus(r) \/ ServerClear(r) \/ ServerGetOrder(r) \/ ServerFail(r)
    \/ \E f \in BagToSet(fetch) : FetchAnswer(f)

\* At most MaxTimers retry timers are armed at once.
MaxTimers == 1

LoopClient == ClientStep /\ timers' <= MaxTimers

NextLoop == LoopClient \/ ServerStep

SpecLoop == InitLoop /\ [][NextLoop]_vars /\ WF_vars(LoopClient) /\ WF_vars(ServerStep)

\* ------------------------------------------------------------------------
\* The cart page: CartProvider.updateQuantity and clearCart
\* (CartContext.jsx 59-74, 85-93) called by CartPage (CartPage.jsx 14-38).
\* ------------------------------------------------------------------------
MaxQty == 2         \* largest quantity asked for
MaxCartCalls == 1   \* requests of CartProvider in flight at once

\* updateQuantity that keeps the items whose quantity is 0.
UpdatedItems_KeepZero(its, productId, quantity) ==
    LET mapped == [i \in DOMAIN its |->
                    IF its[i].product_id = productId
                    THEN [product_id |-> its[i].product_id, quantity |-> quantity]
                    ELSE [product_id |-> its[i].product_id, quantity |-> its[i].quantity]]
    IN  SelectSeq(mapped, LAMBDA it : it.quantity >= 0)

\* CartContext.jsx 62-66: items.map(...).filter(item => item.quantity > 0)
UpdatedItems(its, productId, quantity) ==
    LET mapped == [i \in DOMAIN its |->
                    IF its[i].product_id = productId
                    THEN [product_id |-> its[i].product_id, quantity |-> quantity]
                    ELSE [product_id |-> its[i].product_id, quantity |-> its[i].quantity]]
    IN  SelectSeq(mapped, LAMBDA it : it.quantity > 0)

CartCalls == BagCardinality(cartOps) + BagCardinality(fetch)

cartRest == <<page, loading, paymentMethod, submit, pageVars, orders, sessions,
              histVars, prices, adminOrders, adminReqs, token, issued>>

\* The PUT /cart/update of updateQuantity(productId, quantity) called while
\* the local list is its.
UpdateCall(its, productId, quantity) ==
    [op |-> "updateQuantity", product_id |-> productId, quantity |-> quantity,
     payload |-> UpdatedItems(its, productId, quantity), res |-> "none"]

\* POST /cart/add of addToCart(productId, 1).
AddCall(productId) ==
    [op |-> "addToCart", product_id |-> productId, quantity |-> 1,
     payload |-> <<>>, res |-> "none"]

\* DELETE /cart/item/{productId} of removeFromCart(productId).
RemoveCall(productId) ==
    [op |-> "removeFromCart", product_id |-> productId, quantity |-> 0,
     payload |-> <<>>, res |-> "none"]

\* Routes on which the cart's controls are reachable; CartProvider is mounted
\* above all of them.
Shop == {"cart", "home"}

\* updateQuantity(productId, quantity) up to its first await: PUT /cart/update
\* with the full list.  Any consumer of useCart() may call it; CartPage calls
\* it with the item's quantity - 1 or + 1 (CartPage.jsx 113, 121).
UpdateQuantity(productId, quantity) ==
    /\ page = "cart"
    /\ IF token = 0
       THEN /\ unauth' = "returned"
            /\ UNCHANGED cartOps
       ELSE /\ CartCalls < MaxCartCalls
            /\ cartOps' = cartOps (+) One(UpdateCall(items, productId, quantity))
            /\ UNCHANGED unauth
    /\ UNCHANGED <<cartVars, toast, serverCart, cartRest>>

\* clearCart() up to its await, DELETE /cart, whatever the cart holds (the
\* callers are CartPage.handleClearCart, handleSubmit and checkPayment).
HandleClearCart ==
    /\ page = "cart"
    /\ IF token = 0
       THEN /\ unauth' = "returned"
            /\ toast' = "Cart cleared"
            /\ UNCHANGED cartOps
       ELSE /\ CartCalls < MaxCartCalls
            /\ cartOps' = cartOps (+)
                One([op |-> "clearCart", product_id |-> 0, quantity |-> 0,
                     payload |-> <<>>, res |-> "none"])
            /\ UNCHANGED <<toast, unauth>>
    /\ UNCHANGED <<cartVars, serverCart, cartRest>>

CartAnswer(o, res) == cartOps' = (cartOps (-) One(o)) (+) One([o EXCEPT !.res = res])

\* PUT /cart/update: the cart document becomes the list sent.
ServerSetQuantities(o) ==
    /\ o.op = "updateQuantity" /\ o.res = "none"
    /\ serverCart' = o.payload
    /\ CartAnswer(o, "ok")
    /\ UNCHANGED <<cartVars, toast, cartRest, unauth>>

\* DELETE /cart: succeeds whatever the cart holds.
ServerCartClear(o) ==
    /\ o.op = "clearCart" /\ o.res = "none"
    /\ serverCart' = <<>>
    /\ CartAnswer(o, "ok")
    /\ UNCHANGED <<cartVars, toast, cartRest, unauth>>

ServerCartFail(o) ==
    /\ o.res = "none"
    /\ CartAnswer(o, "fail")
    /\ UNCHANGED <<cartVars, toast, serverCart, cartRest, unauth>>

\* The PUT returned: updateQuantity calls fetchCart (setLoading(true), GET
\* /cart); it threw: handleQuantityChange shows the error.
RecvUpdate(o) ==
    /\ page \in Shop /\ o.op = "updateQuantity" /\ o.res # "none"
    /\ cartOps' = cartOps (-) One(o)
    /\ IF o.res = "ok"
       THEN /\ cartLoading' = TRUE
            /\ fetch' = fetch (+) One(FetchRequest)
            /\ toast' = toast
       ELSE /\ toast' = "Failed to update quantity"
            /\ UNCHANGED <<cartLoading, fetch>>
    /\ UNCHANGED <<items, total, serverCart, cartRest, unauth>>

\* The DELETE returned: setItems([]), setTotal(0), then handleClearCart's
\* toast; it threw: the error toast.
RecvClear(o) ==
    /\ page \in Shop /\ o.op = "clearCart" /\ o.res # "none"
    /\ cartOps' = cartOps (-) One(o)
    /\ items' = IF o.res = "ok" THEN ClearedCart.items ELSE items
    /\ total' = IF o.res = "ok" THEN ClearedCart.total ELSE total
    /\ toast' = IF o.res = "ok" THEN "Cart cleared" ELSE "Failed to clear cart"
    /\ UNCHANGED <<cartLoading, fetch, serverCart, cartRest, unauth>>

\* addToCart(productId, 1) up to its first await; without a token it throws
\* and the caller's catch shows its toast (handleAddToCart of the wishlist).
AddToCart(productId) ==
    /\ page \in Shop
    /\ IF token = 0
       THEN /\ unauth' = "threw"
            /\ toast' = "Failed to add to cart"
            /\ UNCHANGED cartOps
       ELSE /\ CartCalls < MaxCartCalls
            /\ \A i \in DOMAIN serverCart : serverCart[i].quantity < MaxQty
            /\ cartOps' = cartOps (+) One(AddCall(productId))
            /\ UNCHANGED <<toast, unauth>>
    /\ UNCHANGED <<cartVars, serverCart, cartRest>>

\* removeFromCart(productId) up to its first await; without a token it
\* returns and handleRemove shows its success toast.
RemoveFromCart(productId) ==
    /\ page = "cart"
    /\ IF token = 0
       THEN /\ unauth' = "returned"
            /\ toast' = "Item removed from cart"
            /\ UNCHANGED cartOps
       ELSE /\ CartCalls < MaxCartCalls
            /\ cartOps' = cartOps (+) One(RemoveCall(productId))
            /\ UNCHANGED <<toast, unauth>>
    /\ UNCHANGED <<cartVars, serverCart, cartRest>>

\* The cart document after POST /cart/add: the product's quantity raised, or
\* a new line.
CartWithAdded(c, productId, quantity) ==
    IF \E i \in DOMAIN c : c[i].product_id = productId
    THEN [i \in DOMAIN c |->
            IF c[i].product_id = productId
            THEN [product_id |-> productId, quantity |-> c[i].quantity + quantity]
            ELSE c[i]]
    ELSE Append(c, [product_id |-> productId, quantity |-> quantity])

\* The cart document after DELETE /cart/item/{productId}.
CartWithout(c, productId) == SelectSeq(c, LAMBDA it : it.product_id # productId)

ServerCartAdd(o) ==
    /\ o.op = "addToCart" /\ o.res = "none"
    /\ serverCart' = CartWithAdded(serverCart, o.product_id, o.quantity)
    /\ CartAnswer(o, "ok")
    /\ UNCHANGED <<cartVars, toast, cartRest, unauth>>

ServerCartRemove(o) ==
    /\ o.op = "removeFromCart" /\ o.res = "none"
    /\ serverCart' = CartWithout(serverCart, o.product_id)
    /\ CartAnswer(o, "ok")
    /\ UNCHANGED <<cartVars, toast, cartRest, unauth>>

\* The POST returned: addToCart calls fetchCart; it threw: the caller's toast.
\* The success toast follows fetchCart and is not modelled apart from it.
RecvAdd(o) ==
    /\ page \in Shop /\ o.op = "addToCart" /\ o.res # "none"
    /\ cartOps' = cartOps (-) One(o)
    /\ IF o.res = "ok"
       THEN /\ cartLoading' = TRUE
            /\ fetch' = fetch (+) One(FetchRequest)
            /\ toast' = toast
       ELSE /\ toast' = "Failed to add to cart"
            /\ UNCHANGED <<cartLoading, fetch>>
    /\ UNCHANGED <<items, total, serverCart, cartRest, unauth>>

\* The DELETE returned: removeFromCart calls fetchCart; it threw:
\* handleRemove's error toast.
RecvRemove(o) ==
    /\ page \in Shop /\ o.op = "removeFromCart" /\ o.res # "none"
    /\ cartOps' = cartOps (-) One(o)
    /\ IF o.res = "ok"
       THEN /\ cartLoading' = TRUE
            /\ fetch' = fetch (+) One(FetchRequest)
            /\ toast' = toast
       ELSE /\ toast' = "Failed to remove item"
            /\ UNCHANGED <<cartLoading, fetch>>
    /\ UNCHANGED <<items, total, serverCart, cartRest, unauth>>

\* The user signs out from the navigation bar: the token is gone,
\* CartProvider renders with a new fetchCart, whose effect empties the local
\* cart without a request, and handleLogout goes to the home page.  Requests
\* in flight stay in flight.
Logout ==
    /\ page \in Shop /\ token # 0
    /\ token' = 0
    /\ items' = <<>> /\ total' = 0
    /\ page' = "home"
    /\ UNCHANGED <<cartLoading, fetch, checkoutVars, pageVars, serverVars, histVars,
                   prices, cartOps, adminOrders, adminReqs, unauth, issued>>

\* The link to /cart, a route open to everyone.
OpenCartPage ==
    /\ page = "home"
    /\ page' = "cart"
    /\ UNCHANGED <<cartVars, checkoutVars, pageVars, serverVars, histVars, extVars>>

\* The cart page has just loaded: CartProvider has mounted and sent GET /cart.
InitCart ==
    /\ page = "cart"
    /\ prices = [p \in Products |-> Price(p)]
    /\ SignedIn
    /\ items = <<>> /\ total = 0 /\ cartLoading = TRUE
    /\ fetch = One(FetchRequest)
    /\ serverCart \in InitCarts
    /\ orders = <<>> /\ sessions = <<>>
    /\ cartOps = EmptyBag
    /\ IdleCheckout /\ IdleSuccessPage /\ IdleHistory /\ IdleAdmin

NextCart ==
    \/ \E p \in Products, q \in -1..MaxQty : UpdateQuantity(p, q)
    \/ HandleClearCart
    \/ \E o \in BagToSet(cartOps) :
        \/ ServerSetQuantities(o)
        \/ ServerCartClear(o)
        \/ ServerCartFail(o)
        \/ RecvUpdate(o)
        \/ RecvClear(o)
    \/ \E f \in BagToSet(fetch) : FetchAnswer(f) \/ FetchDeliver(f)

SpecCart == InitCart /\ [][NextCart]_vars

\* ------------------------------------------------------------------------
\* The shop with every call of CartProvider and the user signing out.
\* ------------------------------------------------------------------------
NextAuth ==
    \/ NextCart
    \/ \E p \in Products : AddToCart(p) \/ RemoveFromCart(p)
    \/ \E o \in BagToSet(cartOps) :
        \/ ServerCartAdd(o)
        \/ ServerCartRemove(o)
        \/ RecvAdd(o)
        \/ RecvRemove(o)
    \/ Logout
    \/ OpenCartPage

SpecAuth == InitCart /\ [][NextAuth]_vars

\* ------------------------------------------------------------------------
\* Two calls of CartProvider issued one right after the other, before either
\* request has returned: both were made from the same render, so from the
\* same items.  The cart is loaded and holds one of each product.
\* ------------------------------------------------------------------------
RaceCart == <<[product_id |-> 1, quantity |-> 1], [product_id |-> 2, quantity |-> 1]>>

RaceCalls(its) ==
    {UpdateCall(its, p, q) : p \in Products, q \in 0..MaxQty}
        \cup {AddCall(p) : p \in Products}
        \cup {RemoveCall(p) : p \in Products}

InitRace ==
    /\ page = "cart"
    /\ prices = [p \in Products |-> Price(p)]
    /\ token = 1 /\ unauth = "none"
    /\ serverCart = RaceCart
    /\ items = WithProducts(RaceCart) /\ total = CartTotal(items)
    /\ cartLoading = FALSE /\ fetch = EmptyBag
    /\ \E c1, c2 \in RaceCalls(items) :
        /\ issued = <<c1, c2>>
        /\ cartOps = One(c1) (+) One(c2)
    /\ orders = <<>> /\ sessions = <<>>
    /\ IdleCheckout /\ IdleSuccessPage /\ IdleHistory /\ IdleAdmin

NextRace ==
    \/ \E o \in BagToSet(cartOps) :
        \/ ServerSetQuantities(o)
        \/ ServerCartAdd(o)
        \/ ServerCartRemove(o)
        \/ ServerCartFail(o)
        \/ RecvUpdate(o)
        \/ RecvAdd(o)
        \/ RecvRemove(o)
    \/ \E f \in BagToSet(fetch) : FetchAnswer(f) \/ FetchDeliver(f)

SpecRace == InitRace /\ [][NextRace]_vars

\* ------------------------------------------------------------------------
\* The checkout page alone, while the seller may edit product prices
\* (SellerDashboard, OrderSuccessPage.jsx 360-390: updateProduct).
\* ------------------------------------------------------------------------
PriceStep == 500    \* a price edit adds or takes back 5.00

UpdatePrice(p) ==
    /\ prices' = [prices EXCEPT ![p] = IF prices[p] = Price(p) THEN Price(p) + PriceStep
                                       ELSE Price(p)]
    /\ UNCHANGED <<page, cartVars, checkoutVars, pageVars, serverVars, histVars,
                   cartOps, adminOrders, adminReqs, token, unauth, issued>>

NextCheckout ==
    \/ \E f \in BagToSet(fetch) : FetchAnswer(f) \/ FetchDeliver(f)
    \/ \E m \in {"stripe", "paypal"} : SelectPayment(m)
    \/ \E addr \in Addresses : Submit(addr)
    \/ ServerOrder
    \/ ServerSession
    \/ ServerSubmitClear
    \/ ServerSubmitFail
    \/ SubmitFailed
    \/ RecvCreateOrder
    \/ RecvCreateSession
    \/ RecvSubmitClear
    \/ \E p \in Products : UpdatePrice(p)

SpecCheckout == Init /\ [][NextCheckout]_vars

\* ------------------------------------------------------------------------
\* AdminOrders (AdminDashboard.jsx 231-302) and the backend's order-status
\* endpoint.  An invocation of handleStatusChange keeps the orders array of
\* the render that created it (closure).
\* ------------------------------------------------------------------------
MaxAdminReqs == 1   \* requests of AdminOrders in flight at once

\* Lines 290-294: the statuses the Select offers for every order.
StatusChoices == {"pending", "processing", "shipped", "delivered", "cancelled"}

\* The backend's forward-only fulfillment graph.
ForwardEdge(a, b) ==
    <<a, b>> \in {<<"pending", "processing">>, <<"processing", "shipped">>,
                  <<"shipped", "delivered">>, <<"pending", "cancelled">>}

BeyondPending == {"processing", "shipped", "delivered"}

\* GET /orders: what the admin sees of every order.
ServerOrderList ==
    [i \in DOMAIN orders |->
        [order_id |-> i, status |-> orders[i].status,
         payment_status |-> orders[i].payment_status]]

\* PUT /orders/{id}/status: the transition is applied when the graph has
\* the edge and, beyond pending, the order is paid.
TransitionAllowed(id, st) ==
    /\ id \in DOMAIN orders
    /\ ForwardEdge(orders[id].status, st)
    /\ st \in BeyondPending => orders[id].payment_status = "paid"

FetchOrdersReq ==
    [op |-> "getOrders", order_id |-> 0, status |-> "-", closure |-> <<>>,
     res |-> "none", data |-> <<>>]

\* Lines 249-251: handleStatusChange up to its await.
StatusReq(id, st) ==
    [op |-> "updateOrderStatus", order_id |-> id, status |-> st,
     closure |-> adminOrders, res |-> "none", data |-> <<>>]

\* Line 252: orders.map(o => o.order_id === orderId ? {...o, status: newStatus} : o)
WithStatus(list, id, st) ==
    [i \in DOMAIN list |->
        IF list[i].order_id = id THEN [list[i] EXCEPT !.status = st] ELSE list[i]]

\* handleStatusChange showing the new status whether or not the call succeeded.
OnStatusResponse_Always(r) ==
    [orders |-> WithStatus(r.closure, r.order_id, r.status),
     toast |-> IF r.res = "ok" THEN "Status updated" ELSE "Failed to update status"]

\* Lines 251-256: handleStatusChange after await updateOrderStatus.
OnStatusResponse(r) ==
    IF r.res = "ok"
    THEN [orders |-> WithStatus(r.closure, r.order_id, r.status),
          toast |-> "Status updated"]
    ELSE [orders |-> adminOrders, toast |-> "Failed to update status"]

adminRest == <<cartVars, loading, paymentMethod, submit, pageVars, serverCart, sessions,
               histVars, prices, cartOps, token, unauth, issued>>

\* The admin picks the status st in the Select of order id.
HandleStatusChange(id, st) ==
    /\ page = "admin"
    /\ \E i \in DOMAIN adminOrders :
        adminOrders[i].order_id = id /\ adminOrders[i].status # st
    /\ BagCardinality(adminReqs) < MaxAdminReqs
    /\ adminReqs' = adminReqs (+) One(StatusReq(id, st))
    /\ UNCHANGED <<page, adminOrders, toast, orders, adminRest>>

AdminAnswer(r, res, data) ==
    adminReqs' = (adminReqs (-) One(r)) (+) One([r EXCEPT !.res = res, !.data = data])

ServerOrders(r) ==
    /\ r.op = "getOrders" /\ r.res = "none"
    /\ AdminAnswer(r, "ok", ServerOrderList)
    /\ UNCHANGED <<page, adminOrders, toast, orders, adminRest>>

ServerTransition(r) ==
    /\ r.op = "updateOrderStatus" /\ r.res = "none"
    /\ IF TransitionAllowed(r.order_id, r.status)
       THEN /\ orders' = [orders EXCEPT ![r.order_id].status = r.status]
            /\ AdminAnswer(r, "ok", <<>>)
       ELSE /\ orders' = orders
            /\ AdminAnswer(r, "rejected", <<>>)
    /\ UNCHANGED <<page, adminOrders, toast, adminRest>>

ServerAdminFail(r) ==
    /\ r.res = "none"
    /\ AdminAnswer(r, "fail", <<>>)
    /\ UNCHANGED <<page, adminOrders, toast, orders, adminRest>>

\* Lines 237-244: fetchOrders after await getOrders().
RecvOrders(r) ==
    /\ page = "admin" /\ r.op = "getOrders" /\ r.res # "none"
    /\ adminOrders' = IF r.res = "ok" THEN r.data ELSE adminOrders
    /\ adminReqs' = adminReqs (-) One(r)
    /\ UNCHANGED <<page, toast, orders, adminRest>>

RecvStatus(r) ==
    /\ page = "admin" /\ r.op = "updateOrderStatus" /\ r.res # "none"
    /\ adminOrders' = OnStatusResponse(r).orders
    /\ toast' = OnStatusResponse(r).toast
    /\ adminReqs' = adminReqs (-) One(r)
    /\ UNCHANGED <<page, orders, adminRest>>

\* A customer's payment is confirmed.
OrderPaid(id) ==
    /\ orders[id].payment_status = "unpaid" /\ orders[id].status = "pending"
    /\ orders' = [orders EXCEPT ![id].payment_status = "paid"]
    /\ UNCHANGED <<page, adminOrders, adminReqs, toast, adminRest>>

\* AdminOrders has mounted and sent getOrders; two orders exist, both
\* pending, the first unpaid and the second paid.
InitAdmin ==
    /\ page = "admin"
    /\ prices = [p \in Products |-> Price(p)]
    /\ SignedIn
    /\ serverCart = <<>> /\ sessions = <<>>
    /\ orders = [i \in 1..2 |->
                    [items |-> OrderItems(WithProducts(<<[product_id |-> i, quantity |-> 1]>>)),
                     payment_method |-> "stripe",
                     payment_status |-> IF i = 1 THEN "unpaid" ELSE "paid",
                     status |-> "pending"]]
    /\ adminOrders = <<>> /\ adminReqs = One(FetchOrdersReq)
    /\ items = <<>> /\ total = 0 /\ cartLoading = FALSE /\ fetch = EmptyBag
    /\ cartOps = EmptyBag
    /\ IdleCheckout /\ IdleSuccessPage /\ IdleHistory

NextAdmin ==
    \/ \E id \in DOMAIN orders, st \in StatusChoices : HandleStatusChange(id, st)
    \/ \E r \in BagToSet(adminReqs) :
        \/ ServerOrders(r)
        \/ ServerTransition(r)
        \/ ServerAdminFail(r)
        \/ RecvOrders(r)
        \/ RecvStatus(r)
    \/ \E id \in DOMAIN orders : OrderPaid(id)

SpecAdmin == InitAdmin /\ [][NextAdmin]_vars

\* ------------------------------------------------------------------------
\* Order Summary of CartPage (CartPage.jsx 160-187) and of CheckoutPage
\* (AdminDashboard.jsx 378-381, 636-656).  The subtotal is the cart total in
\* cents; subtotal * 0.1 need not be a whole number of cents, so the figures
\* are computed in tenths of a cent (mills), where they are exact.
\* ------------------------------------------------------------------------
MaxPrice == 12000           \* largest price drawn for product 1, in cents

FreeShippingFrom == 10000   \* subtotal >= 100
ShippingFee == 1000         \* 10

Mills(cents) == 10 * cents

\* x * 0.1, for an amount in mills that is a whole number of cents.
TimesTenth(m) == m \div 10

\* x.toFixed(2) for x >= 0 in mills: the amount in cents, half rounded up.
ToFixed2(m) == (m + 5) \div 10

\* AdminDashboard.jsx 378-381: subtotal, shipping, tax, grandTotal (in mills).
CheckoutFigures(subtotal) ==
    LET shipping == IF subtotal >= FreeShippingFrom THEN 0 ELSE ShippingFee
        tax == TimesTenth(Mills(subtotal))
        grandTotal == Mills(subtotal) + Mills(shipping) + tax
    IN  [subtotal |-> Mills(subtotal), shipping |-> Mills(shipping),
         tax |-> tax, total |-> grandTotal]

\* AdminDashboard.jsx 636-656: the figures as displayed, in cents; shipping 0
\* is displayed as 'Free'.
CheckoutSummary(subtotal) ==
    LET f == CheckoutFigures(subtotal) IN
    [subtotal |-> ToFixed2(f.subtotal),
     shipping |-> IF f.shipping = 0 THEN 0 ELSE ToFixed2(f.shipping),
     tax |-> ToFixed2(f.tax),
     total |-> ToFixed2(f.total)]

\* CartPage with the threshold test total > 100.
CartPageSummary_Above(t) ==
    [subtotal |-> ToFixed2(Mills(t)),
     shipping |-> IF t > FreeShippingFrom THEN 0 ELSE ShippingFee,
     tax |-> ToFixed2(TimesTenth(Mills(t))),
     total |-> ToFixed2(Mills(t)
                        + Mills(IF t <= FreeShippingFrom THEN ShippingFee ELSE 0)
                        + TimesTenth(Mills(t)))]

\* CartPage.jsx 166-186: the four displayed figures, in cents; shipping 0 is
\* displayed as 'Free', the fee as the literal '$10.00'.
CartPageSummary(t) ==
    [subtotal |-> ToFixed2(Mills(t)),
     shipping |-> IF t >= FreeShippingFrom THEN 0 ELSE ShippingFee,
     tax |-> ToFixed2(TimesTenth(Mills(t))),
     total |-> ToFixed2(Mills(t)
                        + Mills(IF t < FreeShippingFrom THEN ShippingFee ELSE 0)
                        + TimesTenth(Mills(t)))]

\* The Order Summary on screen: both pages show it only for a cart with items.
SummaryShown == page \in {"cart", "checkout"} /\ items # <<>>
OrderSummary == IF page = "cart" THEN CartPageSummary(total) ELSE CheckoutSummary(total)

\* CartPage.jsx 40-47: handleCheckout of an authenticated user, navigate('/checkout').
HandleCheckout ==
    /\ page = "cart"
    /\ page' = "checkout"
    /\ UNCHANGED <<cartVars, checkoutVars, pageVars, serverVars, histVars, extVars>>

\* The browser's back button on the checkout page.
BackToCart ==
    /\ page = "checkout" /\ submit.pc = "idle"
    /\ page' = "cart"
    /\ toast' = "none" /\ paymentMethod' = "stripe"
    /\ UNCHANGED <<cartVars, loading, submit, pageVars, serverVars, histVars, extVars>>

\* The cart page of a user whose cart holds product 1 at any price up to
\* MaxPrice; CartProvider has fetched the cart.
InitPricing ==
    /\ \E a \in 0..MaxPrice : prices = [p \in Products |-> IF p = 1 THEN a ELSE Price(p)]
    /\ SignedIn
    /\ serverCart \in InitCarts \ {<<>>}
    /\ page = "cart"
    /\ items = WithProducts(serverCart) /\ total = CartTotal(items)
    /\ cartLoading = FALSE /\ fetch = EmptyBag
    /\ orders = <<>> /\ sessions = <<>>
    /\ cartOps = EmptyBag
    /\ IdleCheckout /\ IdleSuccessPage /\ IdleHistory /\ IdleAdmin

NextPricing == HandleCheckout \/ BackToCart

SpecPricing == InitPricing /\ [][NextPricing]_vars

\* ========================================================================
\* Claims
\* ========================================================================

OnSessionPath == page = "success" /\ sessionId # 0
OnOrderPath == page = "success" /\ sessionId = 0 /\ orderId # 0

\* C1: if every getPaymentStatus call fails with a transport error, the poll
\* loop ends reporting 'pending' (never payment failure) and clearCart is
\* never called.
C1_TransportErrorsEndPending ==
    (OnSessionPath /\ failures = {"status"} /\ respKinds = {} /\ status # "loading")
        => (status = "pending" /\ nPageClear = 0)

\* C2: on the session path the page reports status 'error' only if some
\* getPaymentStatus response explicitly reported 'expired'.
C2_ErrorOnlyAfterExpired ==
    (OnSessionPath /\ status = "error") => "expired" \in respKinds

\* C3: once a response has reported 'paid', a failing clearCart never makes
\* the page report 'error' or 'pending'.
C3_PaidSurvivesClearFailure ==
    (OnSessionPath /\ "paid" \in respKinds /\ failures \subseteq {"clear"})
        => status = "success"

\* C4: for a paid order the whole flow issues exactly one cart-clear request;
\* a repeated 'paid' report causes no second clear.
C4_SingleCartClear ==
    (OnSessionPath /\ "paid" \in respKinds) => nSubmitClear + nPageClear <= 1

\* C5: on the order_id path an order whose payment_status is not 'paid' never
\* leads to status 'success' nor to a clearCart call of the page.
C5_OrderPathNeedsPaid ==
    (OnOrderPath /\ orderId \in DOMAIN orders /\ orders[orderId].payment_status # "paid")
        => (status # "success" /\ nPageClear = 0)

\* C6: the page status is 'success' only after clearCart has returned.
C6_SuccessAfterClear ==
    (page = "success" /\ status = "success") => nClearReturned >= 1

\* C7: when the first response is neither paid nor expired and the second
\* reports 'paid', the status 'success' that follows never changes again.
C7_SuccessIsFinal ==
    [][(OnSessionPath /\ respLog = <<"open", "paid">> /\ status = "success")
        => status' = "success"]_vars

\* The page handles, in this step, a response that reports 'expired'.
HandlesExpired ==
    \E r \in BagToSet(runs) :
        /\ r.pc = "getPaymentStatus" /\ r.res.kind = "ok"
        /\ r.res.payment_status # "paid" /\ r.res.status = "expired"
        /\ CopiesIn(r, runs') < CopiesIn(r, runs)

\* C8: when getPaymentStatus reports 'expired' (and not paid) the page reports
\* failure (status 'error') and the cart is left untouched: handling the
\* response calls no clearCart and changes neither the local nor the server
\* cart, and while no response has reported 'paid' the page has never called
\* clearCart and the server cart is the one the page found when it mounted.
C8_ExpiredLeavesCart ==
    /\ [](OnSessionPath /\ "paid" \notin respKinds
            => nPageClear = 0 /\ serverCart = cartAtMount)
    /\ [][HandlesExpired =>
            /\ status' = "error"
            /\ nPageClear' = nPageClear /\ nPageClear = 0
            /\ items' = items /\ total' = total
            /\ serverCart' = serverCart]_vars

C8_Witness ==
    /\ OnSessionPath /\ "expired" \in respKinds /\ status = "error"
    /\ nPageClear = 0 /\ serverCart = cartAtMount /\ serverCart # <<>>

\* C9: if every getPaymentStatus call succeeds and reports neither paid nor
\* expired, the page issues at most 5 status queries.
C9_AtMostFivePolls ==
    (OnSessionPath /\ failures = {} /\ respKinds \subseteq {"open"}) => nQueries <= 5

\* C10: for a non-Stripe payment method handleSubmit never calls
\* createStripeSession, the flow never calls getPaymentStatus, and the cart is
\* cleared only after createOrder succeeded and the order is marked paid.
C10_PaidBeforeClear ==
    /\ submit.method = "paypal" => submit.pc # "createSession"
    /\ OnOrderPath => nQueries = 0
    /\ submit.pc = "clearCart"
        => /\ submit.order_id \in DOMAIN orders
           /\ orders[submit.order_id].payment_status = "paid"

\* C11: for every subtotal CartPage and CheckoutPage show the same figures:
\* shipping is 0 from 100.00 on and 10.00 below, tax is 10% of the subtotal
\* and the total is subtotal + shipping + tax exactly; 110.00 gives 0.00,
\* 11.00 and 121.00, and 40.00 gives 10.00, 4.00 and 54.00.
C11_SameFiguresOnBothPages ==
    SummaryShown =>
        LET f == CheckoutFigures(total)
            shown == OrderSummary
        IN  /\ CartPageSummary(total) = CheckoutSummary(total)
            /\ f.subtotal = Mills(total)
            /\ f.shipping = IF total >= 10000 THEN 0 ELSE Mills(1000)
            /\ 10 * f.tax = f.subtotal
            /\ f.total = f.subtotal + f.shipping + f.tax
            /\ total = 11000 => shown.shipping = 0 /\ shown.tax = 1100 /\ shown.total = 12100
            /\ total = 4000 => shown.shipping = 1000 /\ shown.tax = 400 /\ shown.total = 5400

C11_Witness ==
    /\ SummaryShown /\ page = "checkout" /\ total = 10000
    /\ OrderSummary = [subtotal |-> 10000, shipping |-> 0, tax |-> 1000, total |-> 11000]

\* C12: the tax is rounded to whole cents (half up) before it enters the
\* total, so the total CheckoutPage computes is a whole number of cents.
C12_TaxRoundedBeforeTotal ==
    (page = "checkout" /\ items # <<>>) =>
        LET f == CheckoutFigures(total) IN
        /\ f.tax = Mills(ToFixed2(f.tax))
        /\ f.total = Mills(ToFixed2(f.total))

\* A field value with a character that is not white space.
HasText(v) == \E i \in DOMAIN v : v[i] # " "

ValidationToasts ==
    {"Your cart is empty"} \cup {FieldToast(f) : f \in FieldNames}

\* C13: handleSubmit calls createOrder only when the cart is non-empty and
\* every required shipping field is non-blank; a submit that is refused shows
\* an error, sends no request and leaves the cart and the loading flag
\* unchanged.
C13_SubmitValidates ==
    /\ [](submit.pc = "createOrder" =>
            /\ submit.items # <<>>
            /\ \A f \in FieldNames : HasText(submit.address[f]))
    /\ [][(submit.pc = "idle" /\ submit'.pc = "createOrder") =>
            /\ items # <<>> /\ loading'
            /\ \A f \in FieldNames : HasText(submit'.address[f])]_vars
    /\ [][(toast' # toast /\ toast' \in ValidationToasts) =>
            /\ submit' = submit /\ loading' = loading
            /\ items' = items /\ total' = total
            /\ serverCart' = serverCart /\ orders' = orders]_vars

C13_Witness ==
    /\ submit.pc = "createOrder" /\ loading
    /\ \E f \in FieldNames : submit.address[f] = <<" ", "a">>

\* A refused submit has shown the error of a blank field while the cart holds
\* items and nothing was sent.
C13_RefusedWitness ==
    /\ toast = "Please enter your city" /\ items # <<>>
    /\ submit = SubmitIdle /\ ~loading /\ orders = <<>>

\* C14: the line items createOrder sends are a snapshot of the cart items at
\* submit time, each unit price being the product's price at that moment, and
\* no later change of a price or of the cart changes the line items of an
\* existing order.
C14_LineItemsSnapshot ==
    /\ [][(submit.pc = "idle" /\ submit'.pc = "createOrder") =>
            /\ Len(submit'.items) = Len(items)
            /\ \A i \in DOMAIN items :
                /\ submit'.items[i].product_id = items[i].product_id
                /\ submit'.items[i].quantity = items[i].quantity
                /\ submit'.items[i].price = prices[items[i].product_id]]_vars
    /\ [][\A o \in DOMAIN orders : orders'[o].items = orders[o].items]_vars

\* The status AdminOrders shows for order id.
ShownStatus(id) ==
    LET i == CHOOSE i \in DOMAIN adminOrders : adminOrders[i].order_id = id
    IN  adminOrders[i].status

\* C15: handleStatusChange requests, and AdminOrders shows as applied, only
\* transitions along the forward graph pending -> processing -> shipped ->
\* delivered, pending -> cancelled; never a backward transition nor one out
\* of a terminal status.
C15_ForwardTransitionsOnly ==
    /\ [][\A r \in BagToSet(adminReqs') :
            (r.op = "updateOrderStatus" /\ r.res = "none"
             /\ CopiesIn(r, adminReqs') > CopiesIn(r, adminReqs))
                => ForwardEdge(ShownStatus(r.order_id), r.status)]_vars
    /\ [][\A i \in DOMAIN adminOrders :
            (i \in DOMAIN adminOrders' /\ adminOrders'[i].status # adminOrders[i].status)
                => ForwardEdge(adminOrders[i].status, adminOrders'[i].status)]_vars

C17_UnmountCancelsPoll ==
    [][page = "away" =>
        /\ nChecks' = nChecks
        /\ nPageClear' = nPageClear /\ nClearReturned' = nClearReturned
        /\ serverCart' = serverCart
        /\ status' = status]_vars

\* A getPaymentStatus call is waiting for its response.
HungStatusCall ==
    \E r \in BagToSet(runs) : r.pc = "getPaymentStatus" /\ r.res.kind = "none"

\* C18: a getPaymentStatus call that never receives a response is ended by a
\* per-call timeout, so the page does not stay in 'loading' for ever.
C18_HungCallTimesOut ==
    (<>[]HungStatusCall) => <>(status # "loading")

\* The call o of CartProvider returns successfully in this step.
Returns(o, op) ==
    /\ o.op = op /\ o.res = "ok"
    /\ CopiesIn(o, cartOps') < CopiesIn(o, cartOps)

\* C19: clearCart is idempotent and succeeds on an empty cart: whenever a
\* clearCart call returns, items = [] and total = 0 whatever the cart held,
\* a call that returns when the cart is already cleared changes nothing, and
\* the backend answers the DELETE with an empty cart document whether or not
\* the document was empty before.
C19_ClearCartIdempotent ==
    /\ [][\A o \in BagToSet(cartOps) : Returns(o, "clearCart") =>
            /\ items' = <<>> /\ total' = 0
            /\ (items = <<>> /\ total = 0) => UNCHANGED <<cartVars, serverCart>>]_vars
    /\ [][\A o \in BagToSet(cartOps') :
            (o.op = "clearCart" /\ o.res = "ok" /\ CopiesIn(o, cartOps') > CopiesIn(o, cartOps))
                => serverCart' = <<>>]_vars

\* A first clearCart call has returned and cleared the cart; a second one,
\* answered by the backend on the empty cart, is about to return.
C19_Witness ==
    /\ toast = "Cart cleared" /\ items = <<>> /\ total = 0 /\ serverCart = <<>>
    /\ \E o \in BagToSet(cartOps) : o.op = "clearCart" /\ o.res = "ok"

\* The list updateQuantity(productId, quantity) has to send for the items its.
NewQuantity(its, i, o) ==
    IF its[i].product_id = o.product_id THEN o.quantity ELSE its[i].quantity

Kept(its, o) == {i \in DOMAIN its : NewQuantity(its, i, o) > 0}

\* C20: updateQuantity(productId, q) sends the full item list in which that
\* product's quantity is q and every other item keeps its product_id, its
\* quantity and its position, without the items whose quantity is <= 0.
C20_UpdateSendsFullList ==
    [][\A o \in BagToSet(cartOps') :
        (o.op = "updateQuantity" /\ o.res = "none"
         /\ CopiesIn(o, cartOps') > CopiesIn(o, cartOps)) =>
            /\ Len(o.payload) = Cardinality(Kept(items, o))
            /\ \A i \in Kept(items, o) :
                o.payload[Cardinality({j \in Kept(items, o) : j <= i})]
                    = [product_id |-> items[i].product_id,
                       quantity |-> NewQuantity(items, i, o)]]_vars

\* A two-item cart whose first item was set to 0: the list sent holds the
\* second item alone.
C20_Witness ==
    /\ Len(items) = 2
    /\ \E o \in BagToSet(cartOps) :
        /\ o.op = "updateQuantity" /\ o.product_id = items[1].product_id
        /\ o.quantity = 0
        /\ o.payload = <<[product_id |-> items[2].product_id,
                          quantity |-> items[2].quantity]>>

\* The page handles, in this step, the response of the getPaymentStatus call r.
Handles(r) ==
    /\ r.pc = "getPaymentStatus" /\ r.res.kind # "none"
    /\ CopiesIn(r, runs') < CopiesIn(r, runs)

\* C24: transport errors have a retry budget of their own: the first failure
\* of getPaymentStatus, coming after three or more polls that all answered
\* 'open', is retried (a timer is set) and does not end the loop.
C24_ErrorsHaveOwnBudget ==
    [][\A r \in BagToSet(runs) :
        (OnSessionPath /\ Handles(r) /\ r.res.kind = "fail"
         /\ failures = {} /\ respKinds = {"open"} /\ r.pollCount >= 3)
            => (timers' = timers + 1 /\ status' = status)]_vars

\* getPaymentStatus calls in flight.
StatusCallsInFlight ==
    LET calls == {r \in BagToSet(runs) : r.pc = "getPaymentStatus"}
        RECURSIVE Sum(_)
        Sum(S) == IF S = {} THEN 0
                  ELSE LET r == CHOOSE x \in S : TRUE
                       IN  CopiesIn(r, runs) + Sum(S \ {r})
    IN  Sum(calls)

\* C26: polling is a single flow per page visit: at most one getPaymentStatus
\* call is in flight and at most one retry timer is pending.
C26_SinglePollingFlow ==
    OnSessionPath => (StatusCallsInFlight <= 1 /\ timers <= 1)

Terminal == {"success", "error", "pending"}

\* C28: once the page has reported 'success', 'error' or 'pending', the status
\* never changes again and the page starts no further checkPayment (hence no
\* further getPaymentStatus) and calls clearCart no more.
C28_TerminalIsFinal ==
    [][(page = "success" /\ status \in Terminal) =>
        /\ status' = status
        /\ nChecks' = nChecks
        /\ nPageClear' = nPageClear]_vars

\* Nothing of CartProvider is in flight.
CartQuiet == cartOps = EmptyBag /\ fetch = EmptyBag

\* C21: read-your-writes for the cart: when the response of a fetchCart is
\* delivered and it is the last thing in flight of CartProvider, the local
\* items and total are the server cart left by the most recent write (a late
\* response to an older fetch does not overwrite a newer one).
C21_ReadYourWrites ==
    [][\A f \in BagToSet(fetch) :
        (f.answered /\ f.ok /\ cartOps = EmptyBag
            /\ fetch' = fetch (-) One(f) /\ fetch' = EmptyBag)
        => /\ items' = WithProducts(serverCart)
           /\ total' = CartTotal(WithProducts(serverCart))]_vars

\* C22: no cross-user visibility: while no user is signed in, the cart page
\* shows no items, whatever fetchCart was in flight when the user signed out.
C22_NoItemsAfterLogout ==
    (token = 0 /\ page = "cart") => (items = <<>> /\ total = 0)

\* C23: every cart operation invoked without a token fails with an error: none
\* returns as if it had succeeded.
C23_UnauthenticatedCallFails ==
    unauth \in {"none", "threw"}

\* C29: once a clearCart of the page has succeeded and every request has
\* completed, the local cart is empty.
C29_EmptyAfterClear ==
    (nClearReturned > 0 /\ runs = EmptyBag /\ timers = 0 /\ fetch = EmptyBag
        /\ cartOps = EmptyBag)
        => (items = <<>> /\ total = 0)

\* Both calls in flight at the start are updateQuantity calls, for different
\* products.
TwoUpdates ==
    /\ Len(issued) = 2
    /\ issued[1].op = "updateQuantity" /\ issued[2].op = "updateQuantity"
    /\ issued[1].product_id # issued[2].product_id

\* Two lists of cart lines hold the same lines.
SameLines(a, b) == {a[i] : i \in DOMAIN a} = {b[i] : i \in DOMAIN b}

\* C30: two updateQuantity calls for different products issued before either
\* has completed both take effect: once they and their refreshes have
\* completed without a failure, the server cart and the local items carry both
\* new quantities.
C30_BothUpdatesTakeEffect ==
    (TwoUpdates /\ CartQuiet /\ toast = "none")
        => LET both == UpdatedItems(
                           UpdatedItems(RaceCart, issued[1].product_id, issued[1].quantity),
                           issued[2].product_id, issued[2].quantity)
           IN  /\ SameLines(serverCart, both)
               /\ SameLines(items, WithProducts(both))

\* C27: checkout is all-or-nothing: whenever handleSubmit is about to take
\* its error branch (a request of the attempt has failed), the backend holds
\* no order created by that attempt.
C27_CheckoutAllOrNothing ==
    (page = "checkout" /\ submit.pc # "idle" /\ submit.res = "fail")
        => Len(orders) = 0

\* A step the browser is due to take is kept back by the bounds MaxRuns and
\* MaxTimers.
CutOff ==
    \/ \E r \in BagToSet(runs) :
        /\ r.res.kind # "none"
        /\ ~ENABLED ((RecvPaymentStatus(r) \/ RecvClearCart(r) \/ RecvGetOrder(r))
                      /\ timers' <= MaxTimers)
    \/ timers > 0 /\ ~ENABLED TimerFire
    \/ \E f \in BagToSet(fetch) : f.answered /\ ~ENABLED FetchDeliver(f)

\* C25: the poll loop terminates: when every request is answered or fails,
\* the page ends in 'success', 'error' or 'pending' with no call in flight
\* and no timer pending, and stays there.
C25_PollLoopTerminates ==
    ([]~CutOff) => <>[](status \in Terminal /\ runs = EmptyBag /\ timers = 0)

====
